---- MODULE Spec2Model ----
(***************************************************************************)
(* The session / command-dispatch layer of thirtyfour_sync:                *)
(*   GenericWebDriver (src/src/webdriver.rs): new, quit, drop,             *)
(*     set_request_timeout;                                                *)
(*   ChromeDevTools (src/src/extensions/chrome/devtools.rs): the catalogue *)
(*     of Chrome commands dispatched through WebDriverSession::execute.    *)
(* The main thread owns the driver; worker threads borrow its session      *)
(* through a ChromeDevTools wrapper.                                       *)
(***************************************************************************)
EXTENDS Integers, Sequences, FiniteSets, TLC

\* ------------------------------------------------------------------ bounds
\* ChromeDevTools operations called over the life of the driver.
MaxOps == 3
\* Request timeouts range over 1..MaxDuration.
MaxDuration == 2

\* ------------------------------------------------------------- processes
Main == "main"
Threads == {"t1", "t2"}
Procs == Threads \cup {Main}

Durations == 1..MaxDuration

\* ------------------------------------------------------------ JSON values
Null == [t |-> "null"]
EmptyObject == [t |-> "object", keys |-> {}]
CacheDisabledArgs == [t |-> "object", keys |-> {"cacheDisabled"}]

\* NetworkConditions {offline, latency, download_throughput, upload_throughput}
Conds(off, lat, down, up) ==
    [t |-> "conds", offline |-> off, latency |-> lat,
     download_throughput |-> down, upload_throughput |-> up]
CondsSet == {Conds(FALSE, 200, 20, 10), Conds(TRUE, 0, 0, 0)}

Values == {Null} \cup CondsSet

\* A response document: an object that may or may not have a "value" field.
Body(v) == [has |-> TRUE, value |-> v]
NoValueBody == [has |-> FALSE, value |-> Null]
Bodies == {Body(v) : v \in Values} \cup {NoValueBody}

\* serde_json's v["value"]: Null when the field is absent.
IndexValue(b) == IF b.has THEN b.value ELSE Null

\* -------------------------------------------------------------- results
OkUnit == [ok |-> TRUE, kind |-> "Ok", code |-> "", val |-> [t |-> "unit"]]
Ok(v) == [ok |-> TRUE, kind |-> "Ok", code |-> "", val |-> v]
Err(k, c) == [ok |-> FALSE, kind |-> k, code |-> c, val |-> [t |-> "unit"]]
NoResult == [ok |-> FALSE, kind |-> "none", code |-> "", val |-> [t |-> "unit"]]

TransportError == Err("TransportError", "")
DecodeError == Err("DecodeError", "")
ProtocolError(c) == Err("ProtocolError", c)

ErrorCodes == {"no such window", "invalid session id"}

\* ------------------------------------------------- what the transport does
\* status "ok": success status with a JSON body; "timeout": no answer within
\* the request timeout; "error": non-success status with {error, message};
\* "garbage": a body that is not JSON.
Outcomes ==
    {[status |-> "ok", code |-> "", body |-> b] : b \in Bodies}
    \cup {[status |-> "timeout", code |-> "", body |-> NoValueBody]}
    \cup {[status |-> "error", code |-> c, body |-> NoValueBody] : c \in ErrorCodes}
    \cup {[status |-> "garbage", code |-> "", body |-> NoValueBody]}

\* WebDriverSession::execute's result for a transport outcome.
ExecuteResult(o) ==
    CASE o.status = "ok" -> Ok(o.body)
      [] o.status = "timeout" -> TransportError
      [] o.status = "error" -> ProtocolError(o.code)
      [] OTHER -> DecodeError

\* ------------------------------------------------------- session creation
SessionIds == {"", "s1"}
NegotiatedCaps == {"caps-a", "caps-b"}
DesiredCaps == "desired"

\* The session-creation response comes flat or wrapped in "value".
Replies ==
    [dialect : {"flat", "wrapped"}, sessionId : SessionIds,
     capabilities : NegotiatedCaps]

\* start_session's result for a reply: (session_id, session_capabilities).
StartSessionResult(reply) ==
    [session_id |-> reply.sessionId, capabilities |-> reply.capabilities]

\* ---------------------------------------------------------------- commands
DeleteSession == [tag |-> "DeleteSession"]
NewSession(caps) == [tag |-> "NewSession", capabilities |-> caps]

AppIds == {"app"}
SinkNames == {"sink"}
CdpNames == {"Browser.getVersion"}
CdpArgs == {EmptyObject, CacheDisabledArgs}

\* The calls a caller can make on a ChromeDevTools wrapper.
Calls ==
    {[name |-> "launch_app", app_id |-> a] : a \in AppIds}
    \cup {[name |-> "get_network_conditions"]}
    \cup {[name |-> "set_network_conditions", conditions |-> c] : c \in CondsSet}
    \cup {[name |-> "execute_cdp", cmd |-> n] : n \in CdpNames}
    \cup {[name |-> "execute_cdp_with_params", cmd |-> n, cmd_args |-> a] :
            n \in CdpNames, a \in CdpArgs}
    \cup {[name |-> "get_sinks"]}
    \cup {[name |-> "get_issue_message"]}
    \cup {[name |-> "set_sink_to_use", sink_name |-> s] : s \in SinkNames}
    \cup {[name |-> "start_tab_mirroring", sink_name |-> s] : s \in SinkNames}
    \cup {[name |-> "stop_casting", sink_name |-> s] : s \in SinkNames}

ExecuteCdpCommand(cmd, cmd_args) ==
    [tag |-> "ExecuteCdpCommand", cmd |-> cmd, cmd_args |-> cmd_args]

\* Sends a fresh NetworkConditions instead of the caller's.
SetNetworkConditionsCommandDefault(conditions) ==
    [tag |-> "SetNetworkConditions", conditions |-> Conds(TRUE, 0, 0, 0)]

\* set_network_conditions: ChromeCommand::SetNetworkConditions(conditions.clone()).
SetNetworkConditionsCommand(conditions) ==
    [tag |-> "SetNetworkConditions", conditions |-> conditions]

\* Passes null for the arguments.
ExecuteCdpDelegateNull(cmd) == ExecuteCdpCommand(cmd, Null)

\* execute_cdp: self.execute_cdp_with_params(cmd, json!({})).
ExecuteCdpDelegate(cmd) == ExecuteCdpCommand(cmd, EmptyObject)

\* The ChromeCommand each public method constructs.
ChromeCommandOf(call) ==
    CASE call.name = "launch_app" -> [tag |-> "LaunchApp", app_id |-> call.app_id]
      [] call.name = "get_network_conditions" -> [tag |-> "GetNetworkConditions"]
      [] call.name = "set_network_conditions" ->
            SetNetworkConditionsCommand(call.conditions)
      [] call.name = "execute_cdp" -> ExecuteCdpDelegate(call.cmd)
      [] call.name = "execute_cdp_with_params" ->
            ExecuteCdpCommand(call.cmd, call.cmd_args)
      [] call.name = "get_sinks" -> [tag |-> "GetSinks"]
      [] call.name = "get_issue_message" -> [tag |-> "GetIssueMessage"]
      [] call.name = "set_sink_to_use" ->
            [tag |-> "SetSinkToUse", sink_name |-> call.sink_name]
      [] call.name = "start_tab_mirroring" ->
            [tag |-> "StartTabMirroring", sink_name |-> call.sink_name]
      [] OTHER -> [tag |-> "StopCasting", sink_name |-> call.sink_name]

\* convert_json into NetworkConditions: only a conditions object decodes.
ConvertJson(v) == IF v.t = "conds" THEN Ok(v) ELSE DecodeError

\* Swallows the failure of the dispatched command.
OpResultSwallow(call, r) ==
    CASE call.name = "get_network_conditions" ->
            IF r.ok THEN ConvertJson(IndexValue(r.val)) ELSE r
      [] call.name \in {"execute_cdp", "execute_cdp_with_params", "get_sinks",
                        "get_issue_message"} ->
            IF r.ok THEN Ok(IndexValue(r.val)) ELSE r
      [] OTHER -> OkUnit

\* What a public method returns, given what self.cmd(...) returned.
OpResult(call, r) ==
    CASE call.name = "get_network_conditions" ->
            IF r.ok THEN ConvertJson(IndexValue(r.val)) ELSE r
      [] call.name \in {"execute_cdp", "execute_cdp_with_params", "get_sinks",
                        "get_issue_message"} ->
            IF r.ok THEN Ok(IndexValue(r.val)) ELSE r
      [] OTHER -> IF r.ok THEN OkUnit ELSE r

\* ------------------------------------------------------------------- state
VARIABLES
    driver,     \* the GenericWebDriver: state, session_id, capabilities, quit_on_drop
    conn,       \* the shared transport: the mutex's holder and the request timeout
    inflight,   \* requests the transport has been handed and not yet answered
    pc,         \* where each thread is
    op,         \* the operation each thread is in
    execRes,    \* what Session::execute returned to the thread's operation
    result,     \* what the thread's last finished operation returned to its caller
    calls,      \* transport calls made on behalf of the thread's current operation
    timedOut,   \* threads whose caller-invoked operation had a request time out
    log,        \* the transport's history: requests sent, responses received
    errorLog,   \* number of error!() lines written
    negotiated, \* what start_session returned
    lastSet,    \* the timeout of the last set_request_timeout; 0 before any
    remote,     \* the network conditions a storing remote end holds
    setArg      \* the conditions of the last set the remote end answered, if it succeeded

vars == <<driver, conn, inflight, pc, op, execRes, result, calls, timedOut, log,
          errorLog, negotiated, lastSet, remote, setArg>>

NoOp == [name |-> "none"]
NoDriver ==
    [state |-> "absent", session_id |-> "", capabilities |-> "", quit_on_drop |-> FALSE]
NoNegotiation == [session_id |-> "", capabilities |-> ""]
NoConds == [t |-> "none"]

Init ==
    /\ driver = NoDriver
    /\ conn = [lock |-> "free", timeout |-> 1]
    /\ inflight = {}
    /\ pc = [p \in Procs |-> IF p = Main THEN "init" ELSE "idle"]
    /\ op = [p \in Procs |-> NoOp]
    /\ execRes = [p \in Procs |-> NoResult]
    /\ result = [p \in Procs |-> NoResult]
    /\ calls = [p \in Procs |-> 0]
    /\ timedOut = {}
    /\ log = <<>>
    /\ errorLog = 0
    /\ negotiated = NoNegotiation
    /\ lastSet = 0
    /\ remote = NoConds
    /\ setArg = NoConds

\* ------------------------------------------------------------ log helpers
Sends(l) == {i \in 1..Len(l) : l[i].ev = "send"}
SendsBy(l, p) == {i \in Sends(l) : l[i].proc = p}
SendsVia(l, v) == {i \in Sends(l) : l[i].via = v}
DeleteSends(l) == {i \in Sends(l) : l[i].tag = "DeleteSession"}

\* The history keeps, of a command, which kind of request it is.
KindOf(cmd) ==
    IF cmd.tag \in {"NewSession", "DeleteSession"} THEN cmd.tag ELSE "ChromeCommand"

SendEvent(p, via, cmd, sid) ==
    [ev |-> "send", proc |-> p, via |-> via, tag |-> KindOf(cmd), sid |-> sid,
     n |-> Cardinality(SendsBy(log, p)) + 1]
RecvEvent(p, via, cmd, sid) ==
    [ev |-> "recv", proc |-> p, via |-> via, tag |-> KindOf(cmd), sid |-> sid,
     n |-> Cardinality(SendsBy(log, p))]

AllIdle == \A t \in Threads : pc[t] = "idle"


\* ------------------------------------------------- WebDriverSession (lock)
ViaOf(o) == IF o.name \in {"quit", "drop"} THEN o.name ELSE "ext"
CommandOf(o) == IF o.name \in {"quit", "drop"} THEN DeleteSession ELSE ChromeCommandOf(o)

Request(p) ==
    [proc |-> p, via |-> ViaOf(op[p]), cmd |-> CommandOf(op[p]),
     sid |-> driver.session_id, timeout |-> conn.timeout]

\* Session::execute, first half: take the transport's mutex and hand the
\* rendered request to the transport.
Acquire(p) ==
    /\ pc[p] = "waiting"
    /\ conn.lock = "free"
    /\ conn' = [conn EXCEPT !.lock = p]
    /\ inflight' = inflight \cup {Request(p)}
    /\ log' = Append(log, SendEvent(p, ViaOf(op[p]), CommandOf(op[p]), driver.session_id))
    /\ calls' = [calls EXCEPT ![p] = @ + 1]
    /\ pc' = [pc EXCEPT ![p] = "sent"]
    /\ UNCHANGED <<driver, op, execRes, result, timedOut, errorLog, negotiated, lastSet, remote, setArg>>

\* The transport answers (or times out on) a request in flight; execute has
\* its result.
TransportAnswer(r, o) ==
    /\ r \in inflight
    /\ inflight' = inflight \ {r}
    /\ log' = Append(log, RecvEvent(r.proc, r.via, r.cmd, r.sid))
    /\ execRes' = [execRes EXCEPT ![r.proc] = ExecuteResult(o)]
    /\ timedOut' = IF o.status = "timeout" /\ r.via # "drop"
                   THEN timedOut \cup {r.proc} ELSE timedOut
    /\ pc' = [pc EXCEPT ![r.proc] = "responded"]
    /\ UNCHANGED <<driver, conn, op, result, calls, errorLog, negotiated, lastSet>>

\* A remote end that answers anything.
TransportRespond(r, o) ==
    /\ TransportAnswer(r, o)
    /\ UNCHANGED <<remote, setArg>>

\* What a remote end that stores the network conditions may answer: a
\* successful get carries the stored conditions, and fails while none is stored.
StoringOutcomes(r) ==
    CASE r.cmd.tag = "GetNetworkConditions" ->
            {o \in Outcomes : o.status = "ok" => (remote # NoConds /\ o.body = Body(remote))}
      [] r.cmd.tag = "SetNetworkConditions" ->
            {o \in Outcomes : o.status = "ok" => o.body = Body(Null)}
      [] OTHER -> {o \in Outcomes : o.status = "ok" => o.body = Body(Null)}

\* A remote end that stores the conditions of a set it answers with success;
\* a set it fails may or may not have been stored.
StoringRespond(r, o, stores) ==
    /\ o \in StoringOutcomes(r)
    /\ o.status = "ok" => stores
    /\ TransportAnswer(r, o)
    /\ remote' = IF r.cmd.tag = "SetNetworkConditions" /\ stores
                 THEN r.cmd.conditions ELSE remote
    /\ setArg' = IF r.cmd.tag # "SetNetworkConditions" THEN setArg
                 ELSE IF o.status = "ok" THEN op[r.proc].conditions ELSE NoConds

\* Session::execute, second half: the mutex guard is dropped as execute returns.
Unlock(c) == [c EXCEPT !.lock = "free"]

\* WebDriverSession::set_request_timeout: sets the transport's timeout.
SessionSetRequestTimeout(c, timeout) == [c EXCEPT !.timeout = timeout]

\* ----------------------------------------------------------- ChromeDevTools
\* A wrapper that holds the session without borrowing it from the driver.
BorrowUnchecked(t) ==
    /\ driver.state # "absent"
    /\ pc[t] = "idle"
    /\ pc' = [pc EXCEPT ![t] = "ready"]
    /\ UNCHANGED <<driver, conn, inflight, op, execRes, result, calls, timedOut, log,
                   errorLog, negotiated, lastSet, remote, setArg>>

\* ChromeDevTools::new(driver.session()): the wrapper borrows the session.
Borrow(t) ==
    /\ pc[Main] = "live"
    /\ pc[t] = "idle"
    /\ pc' = [pc EXCEPT ![t] = "ready"]
    /\ UNCHANGED <<driver, conn, inflight, op, execRes, result, calls, timedOut, log,
                   errorLog, negotiated, lastSet, remote, setArg>>

\* The wrapper goes out of scope: the borrow ends.
Release(t) ==
    /\ pc[t] = "ready"
    /\ pc' = [pc EXCEPT ![t] = "idle"]
    /\ result' = [result EXCEPT ![t] = NoResult]
    /\ calls' = [calls EXCEPT ![t] = 0]
    /\ timedOut' = timedOut \ {t}
    /\ UNCHANGED <<driver, conn, inflight, op, execRes, log, errorLog, negotiated, lastSet, remote, setArg>>

\* Hands the request to the transport itself, without Session::execute.
CmdBypass(t, call) ==
    /\ pc' = [pc EXCEPT ![t] = "sent"]
    /\ op' = [op EXCEPT ![t] = call]
    /\ inflight' = inflight \cup
         {[proc |-> t, via |-> "ext", cmd |-> ChromeCommandOf(call),
           sid |-> driver.session_id, timeout |-> conn.timeout]}
    /\ log' = Append(log, SendEvent(t, "ext", ChromeCommandOf(call), driver.session_id))
    /\ calls' = [calls EXCEPT ![t] = 1]
    /\ UNCHANGED <<conn>>

\* Hands the request to the transport and does not wait for the response.
CmdNoWait(t, call) ==
    /\ pc' = pc
    /\ op' = [op EXCEPT ![t] = call]
    /\ inflight' = inflight \cup
         {[proc |-> t, via |-> "ext", cmd |-> ChromeCommandOf(call),
           sid |-> driver.session_id, timeout |-> conn.timeout]}
    /\ log' = Append(log, SendEvent(t, "ext", ChromeCommandOf(call), driver.session_id))
    /\ calls' = [calls EXCEPT ![t] = 1]
    /\ UNCHANGED <<conn>>

\* ChromeDevTools::cmd: self.session.execute(Box::new(command)).
Cmd(t, call) ==
    /\ pc' = [pc EXCEPT ![t] = "waiting"]
    /\ op' = [op EXCEPT ![t] = call]
    /\ calls' = [calls EXCEPT ![t] = 0]
    /\ UNCHANGED <<conn, inflight, log>>

\* A caller invokes one of the public methods.
CallOp(t, call) ==
    /\ pc[t] = "ready"
    /\ Cardinality(SendsVia(log, "ext")) + Cardinality({u \in Threads : pc[u] = "waiting"})
         < MaxOps
    /\ Cmd(t, call)
    /\ result' = [result EXCEPT ![t] = NoResult]
    /\ timedOut' = timedOut \ {t}
    /\ UNCHANGED <<driver, execRes, errorLog, negotiated, lastSet, remote, setArg>>

\* Keeps the transport's lock when the command failed.
ReturnOpKeepsLockOnError(t) ==
    /\ t \in Threads
    /\ pc[t] = "responded"
    /\ conn' = IF execRes[t].ok THEN Unlock(conn) ELSE conn
    /\ result' = [result EXCEPT ![t] = OpResult(op[t], execRes[t])]
    /\ op' = [op EXCEPT ![t] = NoOp]
    /\ execRes' = [execRes EXCEPT ![t] = NoResult]
    /\ pc' = [pc EXCEPT ![t] = "ready"]
    /\ UNCHANGED <<driver, inflight, calls, timedOut, log, errorLog, negotiated, lastSet,
                   remote, setArg>>

\* The public method returns to its caller.
ReturnOp(t) ==
    /\ t \in Threads
    /\ pc[t] = "responded"
    /\ conn' = Unlock(conn)
    /\ result' = [result EXCEPT ![t] = OpResult(op[t], execRes[t])]
    /\ op' = [op EXCEPT ![t] = NoOp]
    /\ execRes' = [execRes EXCEPT ![t] = NoResult]
    /\ pc' = [pc EXCEPT ![t] = "ready"]
    /\ UNCHANGED <<driver, inflight, calls, timedOut, log, errorLog, negotiated, lastSet, remote, setArg>>


\* --------------------------------------------------------- GenericWebDriver
\* Hands back the capabilities that were asked for.
CapabilitiesDesired(d) == DesiredCaps

\* GenericWebDriver::capabilities: a clone of the stored capabilities.
Capabilities(d) == d.capabilities

\* Builds the driver with automatic teardown switched off.
NewDriverNoTeardown(session_id, session_capabilities) ==
    [state |-> "live", session_id |-> session_id,
     capabilities |-> session_capabilities, quit_on_drop |-> FALSE]

\* The struct GenericWebDriver::new builds from start_session's result.
NewDriver(session_id, session_capabilities) ==
    [state |-> "live", session_id |-> session_id,
     capabilities |-> session_capabilities, quit_on_drop |-> TRUE]

NewSessionLog ==
    log \o << SendEvent(Main, "new", NewSession(DesiredCaps), ""),
              [ev |-> "recv", proc |-> Main, via |-> "new", tag |-> "NewSession",
               sid |-> "", n |-> 1] >>

\* GenericWebDriver::new, T::create(remote_server_addr)? fails.
NewCreateFails ==
    /\ pc[Main] = "init"
    /\ pc' = [pc EXCEPT ![Main] = "new_failed"]
    /\ result' = [result EXCEPT ![Main] = TransportError]
    /\ UNCHANGED <<driver, conn, inflight, op, execRes, calls, timedOut, log, errorLog,
                   negotiated, lastSet, remote, setArg>>

\* GenericWebDriver::new, start_session(conn.clone(), capabilities)? fails.
NewStartSessionFails(o) ==
    /\ pc[Main] = "init"
    /\ o.status # "ok"
    /\ log' = NewSessionLog
    /\ pc' = [pc EXCEPT ![Main] = "new_failed"]
    /\ result' = [result EXCEPT ![Main] = ExecuteResult(o)]
    /\ UNCHANGED <<driver, conn, inflight, op, execRes, calls, timedOut, errorLog,
                   negotiated, lastSet, remote, setArg>>

\* GenericWebDriver::new succeeds.
NewOk(reply) ==
    /\ pc[Main] = "init"
    /\ log' = NewSessionLog
    /\ negotiated' = StartSessionResult(reply)
    /\ driver' = NewDriver(StartSessionResult(reply).session_id,
                           StartSessionResult(reply).capabilities)
    /\ pc' = [pc EXCEPT ![Main] = "live"]
    /\ result' = [result EXCEPT ![Main] = OkUnit]
    /\ UNCHANGED <<conn, inflight, op, execRes, calls, timedOut, errorLog, lastSet, remote, setArg>>

\* Leaves the transport's timeout as it was.
SetRequestTimeoutDropped(c, timeout) == c

\* GenericWebDriver::set_request_timeout: self.session.set_request_timeout(timeout).
SetRequestTimeoutConn(c, timeout) == SessionSetRequestTimeout(c, timeout)

\* set_request_timeout takes &mut self: no wrapper borrows the session.
SetRequestTimeout(d) ==
    /\ pc[Main] = "live"
    /\ AllIdle
    /\ conn' = SetRequestTimeoutConn(conn, d)
    /\ lastSet' = d
    /\ UNCHANGED <<driver, inflight, pc, op, execRes, result, calls, timedOut, log,
                   errorLog, negotiated, remote, setArg>>

\* Tears down whenever the flag is set, whatever the session id.
DropSendsFlagOnly(d) == d.quit_on_drop

\* Tears down only a driver that has already quit.
DropSendsFlagInverted(d) == ~d.quit_on_drop /\ d.session_id # ""

\* Drop::drop's condition for sending DeleteSession.
DropSends(d) == d.quit_on_drop /\ d.session_id # ""

\* The driver goes out of scope with d its final value: Drop::drop starts.
DropStart(d) ==
    IF DropSends(d)
    THEN /\ driver' = d
         /\ op' = [op EXCEPT ![Main] = [name |-> "drop"]]
         /\ pc' = [pc EXCEPT ![Main] = "waiting"]
    ELSE /\ driver' = [d EXCEPT !.state = "dropped"]
         /\ op' = [op EXCEPT ![Main] = NoOp]
         /\ pc' = [pc EXCEPT ![Main] = "done"]

\* GenericWebDriver::quit is called; it takes self: no wrapper borrows the session.
QuitCall ==
    /\ pc[Main] = "live"
    /\ AllIdle
    /\ op' = [op EXCEPT ![Main] = [name |-> "quit"]]
    /\ pc' = [pc EXCEPT ![Main] = "waiting"]
    /\ calls' = [calls EXCEPT ![Main] = 0]
    /\ result' = [result EXCEPT ![Main] = NoResult]
    /\ UNCHANGED <<driver, conn, inflight, execRes, timedOut, log, errorLog, negotiated,
                   lastSet, remote, setArg>>

\* Clears the flag before looking at the outcome of the command.
QuitFlagCleared(r, flag) == FALSE

\* quit's flag after self.cmd(Command::DeleteSession)? returned r.
QuitFlag(r, flag) == IF r.ok THEN FALSE ELSE flag

\* What quit returns.
QuitResult(r) == IF r.ok THEN OkUnit ELSE r

\* quit returns; self is dropped as it does.
QuitReturn ==
    /\ pc[Main] = "responded"
    /\ op[Main].name = "quit"
    /\ conn' = Unlock(conn)
    /\ result' = [result EXCEPT ![Main] = QuitResult(execRes[Main])]
    /\ execRes' = [execRes EXCEPT ![Main] = NoResult]
    /\ DropStart([driver EXCEPT !.quit_on_drop = QuitFlag(execRes[Main], @)])
    /\ UNCHANGED <<inflight, calls, timedOut, log, errorLog, negotiated, lastSet, remote, setArg>>

\* The driver goes out of scope without quit having been called.
ScopeEnd ==
    /\ pc[Main] = "live"
    /\ AllIdle
    /\ DropStart(driver)
    /\ calls' = [calls EXCEPT ![Main] = 0]
    /\ result' = [result EXCEPT ![Main] = NoResult]
    /\ UNCHANGED <<conn, inflight, execRes, timedOut, log, errorLog, negotiated, lastSet, remote, setArg>>

\* Hands the teardown's failure on instead of logging it.
DropReturnSurfaces ==
    /\ pc[Main] = "responded"
    /\ op[Main].name = "drop"
    /\ conn' = Unlock(conn)
    /\ errorLog' = errorLog
    /\ result' = IF execRes[Main].ok THEN result
                 ELSE [result EXCEPT ![Main] = execRes[Main]]
    /\ execRes' = [execRes EXCEPT ![Main] = NoResult]
    /\ op' = [op EXCEPT ![Main] = NoOp]
    /\ driver' = [driver EXCEPT !.state = "dropped"]
    /\ pc' = [pc EXCEPT ![Main] = "done"]
    /\ UNCHANGED <<inflight, calls, timedOut, log, negotiated, lastSet, remote, setArg>>

\* Drop::drop after self.cmd(Command::DeleteSession) returned: an error is
\* logged with error!() and nothing else happens.
DropReturn ==
    /\ pc[Main] = "responded"
    /\ op[Main].name = "drop"
    /\ conn' = Unlock(conn)
    /\ errorLog' = IF execRes[Main].ok THEN errorLog ELSE errorLog + 1
    /\ execRes' = [execRes EXCEPT ![Main] = NoResult]
    /\ op' = [op EXCEPT ![Main] = NoOp]
    /\ driver' = [driver EXCEPT !.state = "dropped"]
    /\ pc' = [pc EXCEPT ![Main] = "done"]
    /\ UNCHANGED <<inflight, result, calls, timedOut, log, negotiated, lastSet, remote, setArg>>

\* ------------------------------------------------------------ specification
Next ==
    \/ NewCreateFails
    \/ \E o \in Outcomes : NewStartSessionFails(o)
    \/ \E reply \in Replies : NewOk(reply)
    \/ \E d \in Durations : SetRequestTimeout(d)
    \/ \E t \in Threads : Borrow(t)
    \/ \E t \in Threads : Release(t)
    \/ \E t \in Threads, call \in Calls : CallOp(t, call)
    \/ \E p \in Procs : Acquire(p)
    \/ \E r \in inflight, o \in Outcomes : TransportRespond(r, o)
    \/ \E t \in Threads : ReturnOp(t)
    \/ QuitCall
    \/ QuitReturn
    \/ ScopeEnd
    \/ DropReturn

Spec == Init /\ [][Next]_vars

\* Scheduling: a thread blocked on a free lock takes it, the transport answers
\* or times out every request, and a thread that can return does.
Fairness ==
    /\ \A p \in Procs : WF_vars(Acquire(p))
    /\ WF_vars(\E r \in inflight, o \in Outcomes : TransportRespond(r, o))
    /\ \A t \in Threads : WF_vars(ReturnOp(t))
    /\ WF_vars(QuitReturn)
    /\ WF_vars(DropReturn)

\* One call of each shape of result: unit, decoded conditions, raw value.
LockCalls ==
    {call \in Calls : call.name \in {"launch_app", "get_network_conditions", "execute_cdp"}}

NextFair ==
    \/ NewCreateFails
    \/ \E o \in Outcomes : NewStartSessionFails(o)
    \/ \E reply \in Replies : NewOk(reply)
    \/ \E d \in Durations : SetRequestTimeout(d)
    \/ \E t \in Threads : Borrow(t)
    \/ \E t \in Threads : Release(t)
    \/ \E t \in Threads, call \in LockCalls : CallOp(t, call)
    \/ \E p \in Procs : Acquire(p)
    \/ \E r \in inflight, o \in Outcomes : TransportRespond(r, o)
    \/ \E t \in Threads : ReturnOp(t)
    \/ QuitCall
    \/ QuitReturn
    \/ ScopeEnd
    \/ DropReturn

SpecFair == Init /\ [][NextFair]_vars /\ Fairness

\* The calls that read and write the network conditions.
NetworkCalls ==
    {call \in Calls : call.name \in {"get_network_conditions", "set_network_conditions"}}

\* The driver against a remote end that stores the network conditions.
NextStoring ==
    \/ NewCreateFails
    \/ \E o \in Outcomes : NewStartSessionFails(o)
    \/ \E reply \in Replies : NewOk(reply)
    \/ \E d \in Durations : SetRequestTimeout(d)
    \/ \E t \in Threads : Borrow(t)
    \/ \E t \in Threads : Release(t)
    \/ \E t \in Threads, call \in NetworkCalls : CallOp(t, call)
    \/ \E p \in Procs : Acquire(p)
    \/ \E r \in inflight, o \in Outcomes, stores \in BOOLEAN : StoringRespond(r, o, stores)
    \/ \E t \in Threads : ReturnOp(t)
    \/ QuitCall
    \/ QuitReturn
    \/ ScopeEnd
    \/ DropReturn

SpecStoring == Init /\ [][NextStoring]_vars

TypeOK ==
    /\ driver.state \in {"absent", "live", "dropped"}
    /\ conn.lock \in Procs \cup {"free"}
    /\ conn.timeout \in Durations
    /\ pc \in [Procs -> {"init", "new_failed", "live", "idle", "ready", "waiting",
                         "sent", "responded", "done"}]
    /\ errorLog \in 0..1


\* ================================================================== claims
QuitCalled == SendsVia(log, "quit") # {}
LastSend == CHOOSE i \in Sends(log) : \A j \in Sends(log) : j <= i
EventsOf(p) == SelectSeq(log, LAMBDA e : e.proc = p)

\* C1: for every driver on which quit() has been called, whatever the outcome
\* of quit()'s delete-session request, the transport sees at most one
\* delete-session request for that driver over its whole lifetime.
C1_AtMostOneDeleteAfterQuit ==
    QuitCalled => Cardinality(DeleteSends(log)) <= 1

\* C2: for a driver with a non-empty session id on which quit() is never
\* called, the end of scope sends exactly one delete-session request for that
\* session id, and it is the last request on the transport.
C2_ScopeEndDeletesOnce ==
    (pc[Main] = "done" /\ driver.session_id # "" /\ ~QuitCalled) =>
        /\ Cardinality(DeleteSends(log)) = 1
        /\ log[LastSend].tag = "DeleteSession"
        /\ log[LastSend].via = "drop"
        /\ log[LastSend].sid = driver.session_id
        /\ log[Len(log)].ev = "recv"

C2_Witness ==
    /\ pc[Main] = "done"
    /\ driver.session_id # ""
    /\ ~QuitCalled
    /\ Cardinality(SendsVia(log, "ext")) >= 2

\* C3: a driver whose session id is the empty string sends no request when its
\* scope ends, whatever the value of quit_on_drop.
C3_EmptySessionNoTeardown ==
    (driver.state # "absent" /\ driver.session_id = "") =>
        /\ SendsVia(log, "drop") = {}
        /\ op[Main].name # "drop"
        /\ (pc[Main] = "done" => inflight = {})

C3_Witness ==
    /\ pc[Main] = "done"
    /\ driver.session_id = ""
    /\ driver.quit_on_drop
    /\ QuitCalled
    /\ ~result[Main].ok

\* C4: at most one request is in flight on the transport at any time, in every
\* interleaving of the threads that issue commands through the session.
C4_OneRequestInFlight == Cardinality(inflight) <= 1

C4_Witness ==
    \E r \in inflight : \E t \in Threads :
        /\ r.proc \in Threads
        /\ r.proc # t
        /\ pc[t] = "waiting"

\* C5: when the transport times out on a request, the caller-invoked operation
\* that issued it fails with TransportError and the transport has been called
\* exactly once for that operation.
C5_TimeoutNotRetried ==
    \A p \in Procs :
        (p \in timedOut /\ pc[p] \in {"ready", "done"}) =>
            /\ result[p] = TransportError
            /\ calls[p] = 1

\* C6: every caller-invoked operation that dispatches a command (quit and each
\* public ChromeDevTools method) returns the failure of Session::execute, with
\* the same error kind and code, whenever execute fails for that command.
C6_FailurePropagates ==
    [][\A p \in Procs :
          (/\ pc[p] = "responded"
           /\ op[p].name # "drop"
           /\ ~execRes[p].ok
           /\ pc'[p] # "responded") => result'[p] = execRes[p]]_vars

C6_Witness ==
    \E t \in Threads :
        /\ pc[t] = "ready"
        /\ result[t] = ProtocolError("no such window")

\* C7: when the delete-session request sent by the end-of-scope teardown
\* fails, the teardown completes normally, nothing is returned to any caller,
\* the failure is logged, and no further request is sent.
C7_TeardownFailureSwallowed ==
    [][/\ (/\ pc[Main] = "responded"
           /\ op[Main].name = "drop"
           /\ ~execRes[Main].ok) =>
              (/\ pc'[Main] = "done"
               /\ result' = result
               /\ log' = log
               /\ inflight' = {}
               /\ errorLog' = errorLog + 1)
       /\ pc[Main] = "done" => (log' = log /\ result' = result /\ inflight' = {})]_vars

C7_Witness ==
    /\ pc[Main] = "done"
    /\ errorLog = 1
    /\ ~QuitCalled

\* C8: the requests of one thread are sent, and their responses received, in
\* the order the thread issued them: each response is received before the
\* thread's next request is sent, whatever the other threads do.
C8_PerThreadOrder ==
    \A p \in Procs :
        \A k \in 1..Len(EventsOf(p)) :
            /\ EventsOf(p)[k].ev = (IF k % 2 = 1 THEN "send" ELSE "recv")
            /\ EventsOf(p)[k].n = (k + 1) \div 2

C8_Witness ==
    \E i, j, k \in 1..Len(log) :
        /\ i < j /\ j < k
        /\ log[i].proc = "t1" /\ log[i].ev = "recv" /\ log[i].n = 1
        /\ log[j].proc = "t2" /\ log[j].ev = "send"
        /\ log[k].proc = "t1" /\ log[k].ev = "send" /\ log[k].n = 2

\* C9: new either fails with the error of transport creation or of session
\* negotiation, and then no driver exists and no delete-session request is
\* ever sent, or yields a driver whose quit_on_drop is true and whose session
\* id and capabilities are the ones start_session returned.
C9_NewFailsOrBuildsDriver ==
    /\ pc[Main] = "new_failed" =>
          /\ driver = NoDriver
          /\ ~result[Main].ok /\ result[Main].kind # "none"
          /\ DeleteSends(log) = {}
          /\ inflight = {}
    /\ pc[Main] = "live" =>
          /\ driver.state = "live"
          /\ driver.quit_on_drop
          /\ driver.session_id = negotiated.session_id
          /\ driver.capabilities = negotiated.capabilities

C9_Witness ==
    /\ pc[Main] = "live"
    /\ driver.session_id = "s1"
    /\ driver.capabilities = "caps-b"
    /\ driver.quit_on_drop

\* C10: after set_request_timeout(d) has returned, every request started
\* through the session is issued with timeout d, and the timeout of a request
\* in flight is the one it was started with.
C10_TimeoutApplies ==
    \A r \in inflight :
        /\ r.timeout = conn.timeout
        /\ lastSet # 0 => r.timeout = lastSet

C10_Witness ==
    \E r \in inflight :
        /\ lastSet = MaxDuration
        /\ r.timeout = MaxDuration
        /\ Cardinality(Sends(log)) >= 3


\* C11: after construction nothing changes the driver's session id or its
\* negotiated capabilities: capabilities() returns the value negotiated at
\* construction at every point of the driver's life.
C11_CapabilitiesImmutable ==
    driver.state # "absent" =>
        /\ driver.session_id = negotiated.session_id
        /\ Capabilities(driver) = negotiated.capabilities
        /\ negotiated.capabilities \in NegotiatedCaps

C11_Witness ==
    /\ pc[Main] = "live"
    /\ lastSet = MaxDuration
    /\ Cardinality(SendsVia(log, "ext")) >= 2
    /\ \E t \in Threads : pc[t] = "ready" /\ result[t] = TransportError
    /\ Capabilities(driver) = "caps-b"


\* C12: against a remote end that stores the network conditions it is sent, a
\* successful set_network_conditions(c) followed by get_network_conditions()
\* on the same session, with no other set answered in between, returns a
\* NetworkConditions whose four fields equal those of c.
C12_NetworkConditionsRoundTrip ==
    [][\A t \in Threads :
          (/\ pc[t] = "responded"
           /\ op[t].name = "get_network_conditions"
           /\ pc'[t] = "ready"
           /\ execRes[t].ok
           /\ setArg # NoConds) =>
              /\ result'[t].ok
              /\ result'[t].val.offline = setArg.offline
              /\ result'[t].val.latency = setArg.latency
              /\ result'[t].val.download_throughput = setArg.download_throughput
              /\ result'[t].val.upload_throughput = setArg.upload_throughput]_vars

C12_Witness ==
    \E t \in Threads :
        /\ pc[t] = "ready"
        /\ setArg = Conds(FALSE, 200, 20, 10)
        /\ result[t] = Ok(Conds(FALSE, 200, 20, 10))


ValueCalls == {"execute_cdp", "execute_cdp_with_params", "get_sinks", "get_issue_message"}

\* C13: execute_cdp(n) dispatches the generic-passthrough command with name n
\* and the empty JSON object as arguments, the command that
\* execute_cdp_with_params(n, {}) dispatches, and on success returns the
\* "value" field of the response undecoded.
C13_ExecuteCdpEmptyArgs ==
    [][\A t \in Threads :
          /\ (op[t].name = "execute_cdp" /\ pc[t] = "waiting" /\ pc'[t] = "sent") =>
                \E r \in inflight' \ inflight :
                    /\ r.proc = t
                    /\ r.cmd = [tag |-> "ExecuteCdpCommand", cmd |-> op[t].cmd,
                                cmd_args |-> [t |-> "object", keys |-> {}]]
                    /\ r.cmd = ChromeCommandOf([name |-> "execute_cdp_with_params",
                                                cmd |-> op[t].cmd,
                                                cmd_args |-> EmptyObject])
          /\ (/\ op[t].name = "execute_cdp"
              /\ pc[t] = "responded" /\ pc'[t] = "ready"
              /\ execRes[t].ok /\ execRes[t].val.has) =>
                result'[t] = Ok(execRes[t].val.value)]_vars

C13_Witness ==
    \E r \in inflight :
        /\ op[r.proc].name = "execute_cdp"
        /\ r.cmd.tag = "ExecuteCdpCommand"
        /\ r.cmd.cmd = "Browser.getVersion"
        /\ r.cmd.cmd_args = EmptyObject

\* C14: every public ChromeDevTools operation reaches the transport only
\* through Session::execute, exactly once per call: one call causes exactly one
\* request, and no request is on the transport that did not pass through
\* Session::execute (its sender holds the transport's lock).
C14_OneRequestPerCall ==
    /\ \A r \in inflight : conn.lock = r.proc /\ pc[r.proc] = "sent"
    /\ \A t \in Threads :
          /\ pc[t] = "waiting" => calls[t] = 0
          /\ pc[t] \in {"sent", "responded"} => calls[t] = 1
          /\ (pc[t] = "ready" /\ result[t] # NoResult) => calls[t] = 1
    /\ Cardinality(SendsVia(log, "ext")) =
          Cardinality({i \in 1..Len(log) : log[i].ev = "recv" /\ log[i].via = "ext"})
            + Cardinality({r \in inflight : r.via = "ext"})

C14_Witness ==
    \E t \in Threads :
        /\ pc[t] = "ready"
        /\ result[t].ok
        /\ calls[t] = 1
        /\ Cardinality(SendsVia(log, "ext")) >= 2

\* C15: when the response to an operation that reads the response's "value"
\* field is valid JSON without a "value" field, the operation fails with a
\* DecodeError and does not return a successful result.
C15_MissingValueFails ==
    [][\A t \in Threads :
          (/\ op[t].name \in ValueCalls \cup {"get_network_conditions"}
           /\ pc[t] = "responded" /\ pc'[t] = "ready"
           /\ execRes[t].ok /\ ~execRes[t].val.has) =>
              result'[t] = DecodeError]_vars


QuitAnswered == \E i \in 1..Len(log) : log[i].ev = "recv" /\ log[i].via = "quit"

\* C17: the driver's quit_on_drop is false only if a delete-session request
\* of quit() has completed successfully; it is true from construction until
\* then, and once false it never becomes true again.
C17_FlagClearedOnlyBySuccessfulQuit ==
    [][/\ (driver'.state # "absent" /\ ~driver'.quit_on_drop) =>
              (/\ \E i \in 1..Len(log') : log'[i].ev = "recv" /\ log'[i].via = "quit"
               /\ result'[Main] = OkUnit
               /\ pc'[Main] = "done")
       /\ (driver'.state # "absent" /\ result'[Main] # OkUnit) => driver'.quit_on_drop
       /\ (driver.state # "absent" /\ ~driver.quit_on_drop) => ~driver'.quit_on_drop]_vars

C17_Witness ==
    /\ driver.state = "dropped"
    /\ ~driver.quit_on_drop
    /\ driver.session_id = "s1"
    /\ QuitAnswered
    /\ Cardinality(SendsVia(log, "ext")) >= 1

\* C18: no ChromeDevTools operation is dispatched through a session after its
\* driver has sent its first delete-session request: on the transport every
\* extension request precedes every delete-session request.
C18_NoExtensionAfterDelete ==
    /\ \A i \in DeleteSends(log) : \A j \in SendsVia(log, "ext") : j < i
    /\ DeleteSends(log) # {} => \A t \in Threads : pc[t] = "idle"

C18_Witness ==
    /\ pc[Main] = "done"
    /\ Cardinality(DeleteSends(log)) = 2
    /\ Cardinality(SendsVia(log, "ext")) >= 2

====
